---- MODULE Spec2Model ----
(***************************************************************************)
(* Model of tidal-playlist: the playlist-building pipeline of the Builder  *)
(* (fetch favourites, filter, sample, collect tracks, upsert the playlist) *)
(* and the API client's playlist upsert helper.                            *)
(*                                                                         *)
(* Identifiers of artists are byte strings, modelled as sequences of byte  *)
(* values, so that strings.ToLower and strings.Compare are computed on     *)
(* the bytes.  Playlist ids and titles are opaque strings.  Track ids are  *)
(* opaque and modelled as naturals.                                        *)
(***************************************************************************)
EXTENDS Integers, Sequences, FiniteSets, TLC

\* ------------------------------------------------------------------ bounds

\* Longest track-id list handed to CreateOrUpdatePlaylist in SpecUpsert.
MaxTracks == 45
\* Most playlists the user owns before the run.
MaxExisting == 2
\* Longest artist list handed to FilterArtists / selectRandomItems.
MaxArtists == 3
\* Longest whitelist / blacklist.
MaxFilter == 2
\* Largest configured count and largest --count.
MaxCount == 3
\* Most pages the service splits the favourites into.
MaxPages == 2
\* Runs of the program that share one token file.
MaxRuns == 2
\* Goroutines calling doRequest on one Client.
NCallers == 2
\* Page requests followed before a run of GetFavoriteArtists is cut off.
MaxFavRequests == MaxPages + 2

\* ------------------------------------------------------- program constants

\* batchSize := 20 in CreateOrUpdatePlaylist.
batchSize == 20
\* The album limit CollectTracks passes to GetArtistAlbums.
albumLimit == 100

\* ------------------------------------------------------------------ state

VARIABLES
    pc,                 \* position of the run
    err,                \* error returned ("" for nil)
    \* --- command line and configuration
    cfgCount,           \* playlist.count as loaded
    flagCount,          \* --count flag (0 when absent)
    credsOK,            \* client id and secret are both non-empty
    Count,              \* cfg.Playlist.Count as used by the Builder
    Whitelist,          \* cfg.Filters.Whitelist
    Blacklist,          \* cfg.Filters.Blacklist
    dryRun,             \* --dry-run
    playlistName,       \* resolved playlist name
    \* --- favourite artists
    favPages,           \* the service's pages of favourite artists
    cursor,             \* cursor of GetFavoriteArtists (0 for "")
    allArtists,         \* artists fetched so far / returned
    favRequests,        \* the cursors GetFavoriteArtists requested, in request order
    filteredArtists,    \* result of FilterArtists
    drawn,              \* selectRandomItems' result, in draw order
    \* --- CollectTracks
    artists,            \* the slice CollectTracks walks (sorted in place)
    i,                  \* loop index (0-based, as in the code)
    lastArtist,         \* lastArtist
    lastAlbums,         \* lastAlbums
    result,             \* result slots: <<>> for nil, <<track>> for a track
    trackIDs,           \* ids handed to CreateOrUpdatePlaylist
    \* --- CreateOrUpdatePlaylist
    remote,             \* the user's playlists on the service, in list order
    existingPlaylists,  \* matches found by FindAllPlaylistsByName
    delIdx,             \* position in the delete loop (1-based)
    playlist,           \* playlist returned by CreatePlaylist
    batchI,             \* i of the batch loop (0-based)
    \* --- observation (history) variables
    remote0,            \* the service's playlists at the start of the run
    issued,             \* kinds of API call issued so far
    albumCalls,         \* artist ids for which GetArtistAlbums was called, in call order
    steps,              \* what each iteration of CollectTracks' loop did, in order
    attachCalls,        \* batches of the SetPlaylistTracks calls issued, in call order
    \* --- AuthManager
    authOp,             \* the AuthManager method called: "GetValidToken" or "Login"
    authPc,             \* position of the AuthManager call under way
    authCaller,         \* who called RefreshToken: "LoadToken" or "GetValidToken"
    tokenFile,          \* the token file: [state, data], state "none", "corrupt" or "ok"
    tokenFile0,         \* the token file when the call began
    token,              \* the token the call holds
    authRet,            \* the token the call returned (<<>> for nil)
    authErr,            \* the error the call returned ("" for nil)
    authCalls,          \* token requests and logins made, in order
    listener,           \* Login's callback server: "none", "serving", "failed" or "closed"
    codeChan,           \* Login's codeChan (capacity 1)
    errChan,            \* Login's errChan (capacity 1)
    authRun,            \* number of the program run the call belongs to
    lastSaved,          \* the token whose save the file's contents come from (<<>> if none)
    \* --- Client.doRequest
    gpc,                \* per caller: position in doRequest
    rateLimiter,        \* content of the rateLimiter channel: the callers whose send is in it
    reqOutcome          \* per caller: how its last request ended ("" before the first)

cmdVars     == <<cfgCount, flagCount, credsOK, Count, Whitelist, Blacklist, dryRun, playlistName>>
favVars     == <<favPages, cursor, allArtists, favRequests>>
authVars    == <<authOp, authPc, authCaller, tokenFile, tokenFile0, token, authRet, authErr,
                 authCalls, listener, codeChan, errChan, authRun, lastSaved>>
gateVars    == <<gpc, rateLimiter, reqOutcome>>
collectVars == <<artists, i, lastArtist, lastAlbums, result, albumCalls, steps>>
upsertVars  == <<remote, existingPlaylists, delIdx, playlist, batchI, attachCalls>>
pipeVars    == <<pc, err, cmdVars, favVars, filteredArtists, drawn, collectVars, trackIDs,
                 upsertVars, remote0, issued>>
vars == <<pc, err, cmdVars, favVars, filteredArtists, drawn, collectVars, trackIDs,
          upsertVars, remote0, issued, authVars, gateVars>>

\* ---------------------------------------------------------------- helpers

\* All sequences over S of length at most n.
SeqUpTo(S, n) == UNION { [1..k -> S] : k \in 0..n }

RECURSIVE Concat(_)
\* The concatenation of a sequence of sequences.
Concat(ss) == IF ss = <<>> THEN <<>> ELSE Head(ss) \o Concat(Tail(ss))

\* ------------------------------------------------------------ byte strings

\* strings.ToLower on ASCII: 'A'..'Z' (65..90) map to 'a'..'z'.
ToLower(s) == [k \in 1..Len(s) |-> IF s[k] \in 65..90 THEN s[k] + 32 ELSE s[k]]

RECURSIVE Compare(_, _)
\* strings.Compare: -1, 0 or +1 by bytewise lexicographic order.
Compare(a, b) ==
    IF a = <<>> /\ b = <<>> THEN 0
    ELSE IF a = <<>> THEN -1
    ELSE IF b = <<>> THEN 1
    ELSE IF Head(a) < Head(b) THEN -1
    ELSE IF Head(a) > Head(b) THEN 1
    ELSE Compare(Tail(a), Tail(b))

\* Artist identifiers of the favourites: "1", "B", "Ab".
ArtistIDs == { <<49>>, <<66>>, <<65, 98>> }
\* Entries of the configured filter lists: "1", "b", "aB".
FilterNames == { <<49>>, <<98>>, <<97, 66>> }

\* models.ArtistID values.
ArtistIDRecs == { [ID |-> a] : a \in ArtistIDs }

\* -------------------------------------------------------- models.Playlist

\* The empty playlist value (a nil *models.Playlist).
NoPlaylist == [ID |-> "", UUID |-> "", Title |-> "", Name |-> ""]

\* (p *Playlist) GetID: prefers ID over UUID.
GetID(p) == IF p.ID # "" THEN p.ID ELSE p.UUID

\* (p *Playlist) GetTitle: prefers Title over Name.
GetTitle(p) == IF p.Title # "" THEN p.Title ELSE p.Name

\* ------------------------------------------------- the service's playlists

\* Titles playlists carry; "x" differs from "X" in case only.
Titles == {"X", "x", "Y"}

\* The id the service gives its k-th playlist.
PlaylistID(k) == "p" \o ToString(k)

\* The titles of the playlists of a pipeline run, by position.
Titles0 == [k \in 1..(MaxExisting + 1) |-> IF k = 2 THEN "x" ELSE "X"]

\* The playlist lists the user may own before the run: ids are distinct.
RemoteConfigs ==
    { [k \in 1..n |-> [id |-> PlaylistID(k), name |-> t[k], items |-> <<>>]] :
        n \in 0..MaxExisting, t \in [1..MaxExisting -> Titles] }

\* GetUserPlaylists: the service's list converted to models.Playlist.
GetUserPlaylists(r) ==
    [k \in 1..Len(r) |->
        [ID |-> r[k].id, UUID |-> "", Title |-> r[k].name, Name |-> r[k].name]]

RECURSIVE FindFirstByName(_, _)
\* Faulty variant of FindAllPlaylistsByName: stops at the first match, as
\* FindPlaylistByName does.
FindFirstByName(playlists, name) ==
    IF playlists = <<>> THEN <<>>
    ELSE IF GetTitle(Head(playlists)) = name THEN <<Head(playlists)>>
    ELSE FindFirstByName(Tail(playlists), name)

RECURSIVE FindAllPlaylistsByName(_, _)
\* FindAllPlaylistsByName's loop over the user's playlists: appends every
\* playlist whose GetTitle() == name.
FindAllPlaylistsByName(playlists, name) ==
    IF playlists = <<>> THEN <<>>
    ELSE (IF GetTitle(Head(playlists)) = name THEN <<Head(playlists)>> ELSE <<>>)
         \o FindAllPlaylistsByName(Tail(playlists), name)

\* The service after DELETE /v2/playlists/{id}.
ServerDelete(r, id) == SelectSeq(r, LAMBDA p : p.id # id)

\* The id the service assigns to a playlist created in this run.
NewPlaylistID == PlaylistID(Len(remote0) + 1)

\* The service after POST /v2/playlists.
ServerCreate(r, id, title) == Append(r, [id |-> id, name |-> title, items |-> <<>>])

\* The service after POST /v2/playlists/{id}/relationships/items.
ServerAddItems(r, id, batch) ==
    [k \in 1..Len(r) |->
        IF r[k].id = id THEN [r[k] EXCEPT !.items = @ \o batch] ELSE r[k]]

\* ------------------------------------------------------ the create command

\* Config.Validate: nil ("") or the error.
Validate(creds, cnt) ==
    IF ~creds THEN "tidal credentials are required"
    ELSE IF cnt < 1 THEN "playlist.count must be at least 1"
    ELSE ""

\* createCmd.RunE up to the call of BuildPlaylist: validate the loaded
\* configuration, then override the count with --count if it is > 0.
CreateCmd ==
    /\ pc = "create_cmd"
    /\ IF Validate(credsOK, Count) # ""
       THEN pc' = "failed" /\ err' = "invalid config" /\ Count' = Count
       ELSE /\ Count' = IF flagCount > 0 THEN flagCount ELSE Count
            /\ pc' = "fav_user" /\ err' = err
    /\ UNCHANGED <<cfgCount, flagCount, credsOK, Whitelist, Blacklist, dryRun, playlistName>>
    /\ UNCHANGED <<favVars, filteredArtists, drawn, collectVars, trackIDs, upsertVars,
                   remote0, issued>>
    /\ UNCHANGED <<authVars, gateVars>>

\* ------------------------------------------------------ GetFavoriteArtists

\* userID, err := c.GetUserID(ctx) at the head of GetFavoriteArtists.
FavUserID ==
    /\ pc = "fav_user"
    /\ \E ok \in BOOLEAN :
        IF ok
        THEN pc' = "fav_page" /\ err' = err
        ELSE pc' = "failed" /\ err' = "failed to fetch favorite artists"
    /\ cursor' = 0 /\ allArtists' = <<>> /\ favRequests' = <<>>
    /\ issued' = issued \cup {"GetUserID"}
    /\ UNCHANGED <<cmdVars, favPages, filteredArtists, drawn, collectVars, trackIDs,
                   upsertVars, remote0>>
    /\ UNCHANGED <<authVars, gateVars>>

\* Faulty variant of LastPage: the loop stops at the first page without data.
LastPageByData(page) == Len(page.data) = 0

\* The loop's exit test apiResp.Links.Meta.NextCursor == "".
LastPage(page) == page.nextCursor = 0

\* The response to a request with cursor c: the first page for the empty
\* cursor, otherwise the page the cursor names.
PageAt(pages, c) == pages[IF c = 0 THEN 1 ELSE c]

\* One iteration of GetFavoriteArtists' loop: request the page the cursor
\* names (the first page for the empty cursor), append its data, stop when
\* its nextCursor is empty.  A loop that a cyclic cursor chain keeps going is
\* followed for MaxFavRequests requests.
FavPage ==
    /\ pc = "fav_page"
    /\ Len(favRequests) < MaxFavRequests
    /\ favRequests' = Append(favRequests, cursor)
    /\ \E ok \in BOOLEAN :
        IF ok
        THEN LET page == PageAt(favPages, cursor)
             IN  /\ allArtists' = allArtists \o page.data
                 /\ IF LastPage(page)
                    THEN pc' = "filter" /\ cursor' = cursor
                    ELSE pc' = pc /\ cursor' = page.nextCursor
                 /\ err' = err
        ELSE /\ pc' = "failed" /\ err' = "failed to fetch favorite artists"
             /\ allArtists' = <<>> /\ cursor' = cursor
    /\ issued' = issued \cup {"GetFavoriteArtists"}
    /\ UNCHANGED <<cmdVars, favPages, filteredArtists, drawn, collectVars, trackIDs,
                   upsertVars, remote0>>
    /\ UNCHANGED <<authVars, gateVars>>

\* ------------------------------------------------------- Builder: filter

\* The map[string]bool both filters build: the lower-cased names.
LowerSet(names) == { ToLower(names[k]) : k \in 1..Len(names) }

\* Faulty variant of filterByWhitelist: looks the identifier up without lower-casing it.
filterByWhitelistExact(whitelist, as) ==
    SelectSeq(as, LAMBDA artist : artist.ID \in LowerSet(whitelist))

RECURSIVE filterByWhitelist(_, _)
\* filterByWhitelist: appends, in order, each artist whose lower-cased ID is
\* a key of the whitelist map.
filterByWhitelist(whitelist, as) ==
    IF as = <<>> THEN <<>>
    ELSE (IF ToLower(Head(as).ID) \in LowerSet(whitelist) THEN <<Head(as)>> ELSE <<>>)
         \o filterByWhitelist(whitelist, Tail(as))

\* Faulty variant of filterByBlacklist: looks the identifier up without lower-casing it.
filterByBlacklistExact(blacklist, as) ==
    SelectSeq(as, LAMBDA artist : artist.ID \notin LowerSet(blacklist))

RECURSIVE filterByBlacklist(_, _)
\* filterByBlacklist: appends, in order, each artist whose lower-cased ID is
\* no key of the blacklist map.
filterByBlacklist(blacklist, as) ==
    IF as = <<>> THEN <<>>
    ELSE (IF ToLower(Head(as).ID) \notin LowerSet(blacklist) THEN <<Head(as)>> ELSE <<>>)
         \o filterByBlacklist(blacklist, Tail(as))

\* Faulty variant of FilterArtists: the whitelist test is >= 0, so the whitelist
\* branch is always taken.
FilterArtistsAlwaysWhitelist(whitelist, blacklist, as) == filterByWhitelist(whitelist, as)

\* FilterArtists: whitelist if set, otherwise blacklist if set, otherwise all.
FilterArtists(whitelist, blacklist, as) ==
    IF Len(whitelist) > 0 THEN filterByWhitelist(whitelist, as)
    ELSE IF Len(blacklist) > 0 THEN filterByBlacklist(blacklist, as)
    ELSE as

\* Faulty variant of FilterStep: the emptiness check is missing.
FilterStepNoCheck ==
    /\ pc = "filter"
    /\ filteredArtists' = FilterArtists(Whitelist, Blacklist, allArtists)
    /\ pc' = "sample" /\ err' = err
    /\ UNCHANGED <<cmdVars, favVars, drawn, collectVars, trackIDs, upsertVars, remote0, issued>>
    /\ UNCHANGED <<authVars, gateVars>>

\* BuildPlaylist: filteredArtists := b.FilterArtists(artists), and the
\* error return when nothing is left.
FilterStep ==
    /\ pc = "filter"
    /\ filteredArtists' = FilterArtists(Whitelist, Blacklist, allArtists)
    /\ IF Len(filteredArtists') = 0
       THEN pc' = "failed" /\ err' = "no artists remaining after filtering"
       ELSE pc' = "sample" /\ err' = err
    /\ UNCHANGED <<cmdVars, favVars, drawn, collectVars, trackIDs, upsertVars, remote0, issued>>
    /\ UNCHANGED <<authVars, gateVars>>

\* ----------------------------------------------------- Builder: sampling

\* The zero value of models.ArtistID.
ZeroArtistID == [ID |-> <<>>]

\* Faulty variant of selectRandomItems: the loop stops one short, so the last slot
\* keeps its zero value.
selectRandomItemsShort(count, source) ==
    { [k \in 1..count |-> IF k < count THEN source[d[k]] ELSE ZeroArtistID] :
        d \in [1..count -> 1..Len(source)] }

\* selectRandomItems: the results it can return, one for each outcome of
\* the count draws rand.Intn(len(source)).
selectRandomItems(count, source) ==
    { [k \in 1..count |-> source[d[k]]] : d \in [1..count -> 1..Len(source)] }

\* BuildPlaylist: selectedArtists := selectRandomItems(Count, filteredArtists).
\* rand.Intn panics for an empty source.
SampleStep ==
    /\ pc = "sample"
    /\ IF Count > 0 /\ Len(filteredArtists) = 0
       THEN pc' = "panic" /\ drawn' = drawn
       ELSE pc' = "collect" /\ drawn' \in selectRandomItems(Count, filteredArtists)
    /\ UNCHANGED <<err, cmdVars, favVars, filteredArtists, collectVars, trackIDs,
                   upsertVars, remote0, issued>>
    /\ UNCHANGED <<authVars, gateVars>>

\* ------------------------------------------------- Builder: CollectTracks

\* The service's catalogue.  "B" has two albums, one of them without
\* tracks; "1" has no album; every other artist has one album of one track.
ArtistAlbums(artistID) ==
    IF artistID = <<66>> THEN << [ID |-> "albB1"], [ID |-> "albB2"] >>
    ELSE IF artistID = <<49>> THEN << >>
    ELSE << [ID |-> "albA1"] >>
AlbumTracks(albumID) ==
    IF albumID = "albB1" THEN << [ID |-> 11], [ID |-> 12] >>
    ELSE IF albumID = "albB2" THEN << >>
    ELSE << [ID |-> 31] >>

\* GetArtistAlbums: the artist's albums, cut to the limit.
GetArtistAlbums(artistID, limit) ==
    LET albums == ArtistAlbums(artistID)
    IN  IF Len(albums) > limit THEN SubSeq(albums, 1, limit) ELSE albums

RECURSIVE InsertSorted(_, _)
\* x put into the sorted list s, after the elements not greater than it.
InsertSorted(x, s) ==
    IF s = <<>> THEN <<x>>
    ELSE IF Compare(x.ID, Head(s).ID) < 0 THEN <<x>> \o s
    ELSE <<Head(s)>> \o InsertSorted(x, Tail(s))

RECURSIVE SortArtists(_)
\* slices.SortFunc(artists, strings.Compare on the IDs): equal elements are
\* identical, so the sorted order is unique.
SortArtists(s) == IF s = <<>> THEN <<>> ELSE InsertSorted(Head(s), SortArtists(Tail(s)))

\* Faulty variant of MakeResult: one slot too many.
MakeResultLong(n) == [k \in 1..(n + 1) |-> <<>>]

\* result := make([]*models.Track, len(artists)): n nil slots.
MakeResult(n) == [k \in 1..n |-> <<>>]

\* The head of CollectTracks: result := make(len), the in-place sort, and
\* the loop variables.
CollectStart ==
    /\ pc = "collect"
    /\ result' = MakeResult(Len(drawn))
    /\ artists' = SortArtists(drawn)
    /\ lastArtist' = <<>> /\ lastAlbums' = <<>> /\ i' = 0
    /\ pc' = "collect_loop"
    /\ UNCHANGED <<err, cmdVars, favVars, filteredArtists, drawn, albumCalls, steps,
                   trackIDs, upsertVars, remote0, issued>>
    /\ UNCHANGED <<authVars, gateVars>>

\* Whether the loop body fetches the albums for artist id: the cache test
\* lastArtist == "" || lastArtist != artist.ID.
NeedsAlbums(last, id) == last = <<>> \/ last # id

\* The record steps keeps of one loop iteration.
StepRec(id, fetched, album, outcome) ==
    [id |-> id, fetched |-> fetched, album |-> album, outcome |-> outcome]

\* GetArtist failed: it returned a nil artist, and the warning's argument
\* artist.ID dereferences it.
ArtistFetchFailed(id) ==
    /\ pc' = "panic"
    /\ issued' = issued \cup {"GetArtist"}
    /\ steps' = Append(steps, StepRec(id, FALSE, "", "artist_failed"))
    /\ UNCHANGED <<i, lastArtist, lastAlbums, result, albumCalls>>

\* Faulty variant of AlbumsMissing: the failed album fetch ends the run.
AlbumsMissingAborts(id) ==
    /\ NeedsAlbums(lastArtist, id)
    /\ \E ok \in BOOLEAN : ~ok \/ Len(GetArtistAlbums(id, albumLimit)) = 0
    /\ albumCalls' = Append(albumCalls, id)
    /\ issued' = issued \cup {"GetArtist", "GetArtistAlbums"}
    /\ steps' = Append(steps, StepRec(id, TRUE, "", "albums_failed"))
    /\ pc' = "failed"
    /\ UNCHANGED <<i, lastArtist, lastAlbums, result>>

\* Faulty variant of AlbumsMissing: the artist is remembered as the last one
\* although no albums came, so the album list cached before stays in use.
AlbumsMissingCached(id) ==
    /\ NeedsAlbums(lastArtist, id)
    /\ \E ok \in BOOLEAN : ~ok \/ Len(GetArtistAlbums(id, albumLimit)) = 0
    /\ albumCalls' = Append(albumCalls, id)
    /\ issued' = issued \cup {"GetArtist", "GetArtistAlbums"}
    /\ steps' = Append(steps, StepRec(id, TRUE, "", "albums_failed"))
    /\ i' = i + 1
    /\ lastArtist' = id
    /\ UNCHANGED <<pc, lastAlbums, result>>

\* The album fetch is needed and fails or returns none: the warning, then
\* continue with the next entry; lastArtist and lastAlbums stay.
AlbumsMissing(id) ==
    /\ NeedsAlbums(lastArtist, id)
    /\ \E ok \in BOOLEAN : ~ok \/ Len(GetArtistAlbums(id, albumLimit)) = 0
    /\ albumCalls' = Append(albumCalls, id)
    /\ issued' = issued \cup {"GetArtist", "GetArtistAlbums"}
    /\ steps' = Append(steps, StepRec(id, TRUE, "", "albums_failed"))
    /\ i' = i + 1
    /\ UNCHANGED <<pc, lastArtist, lastAlbums, result>>

RECURSIVE FirstFree(_, _)
\* The first nil slot of res at or after position k (Len(res) + 1 if none).
FirstFree(res, k) ==
    IF k > Len(res) THEN k ELSE IF res[k] = <<>> THEN k ELSE FirstFree(res, k + 1)

\* Faulty variant of StoreTrack: the track goes to the first free slot.
StoreTrackFirstFree(res, idx, track) == [res EXCEPT ![FirstFree(res, 1)] = <<track>>]

\* result[i] = &randomTrack, i being the index in the sorted artists.
StoreTrack(res, idx, track) == [res EXCEPT ![idx + 1] = <<track>>]

\* Albums at hand (fetched now or cached): pick an album, fetch its tracks,
\* pick a track and store it in result[i].
PickTrack(id) ==
    /\ LET fetch  == NeedsAlbums(lastArtist, id)
           albums == IF fetch THEN GetArtistAlbums(id, albumLimit) ELSE lastAlbums
       IN  /\ Len(albums) > 0
           /\ lastArtist' = id
           /\ lastAlbums' = albums
           /\ albumCalls' = IF fetch THEN Append(albumCalls, id) ELSE albumCalls
           /\ issued' = issued \cup {"GetArtist", "GetAlbumTracks"}
                               \cup (IF fetch THEN {"GetArtistAlbums"} ELSE {})
           /\ \E a \in 1..Len(albums), ok \in BOOLEAN :
                 LET tracks == AlbumTracks(albums[a].ID)
                 IN  IF ok /\ Len(tracks) > 0
                     THEN /\ \E t \in 1..Len(tracks) :
                                result' = StoreTrack(result, i, tracks[t])
                          /\ steps' = Append(steps, StepRec(id, fetch, albums[a].ID, "ok"))
                     ELSE /\ result' = result
                          /\ steps' = Append(steps, StepRec(id, fetch, albums[a].ID, "tracks_failed"))
    /\ i' = i + 1
    /\ pc' = pc

\* One iteration of CollectTracks' loop over the sorted artists.  A slot of
\* result is <<>> for nil and <<track>> for a pointer to a track.
CollectStep ==
    /\ pc = "collect_loop"
    /\ i < Len(artists)
    /\ LET id == artists[i + 1].ID IN
       \/ ArtistFetchFailed(id)
       \/ AlbumsMissing(id)
       \/ PickTrack(id)
    /\ UNCHANGED <<err, cmdVars, favVars, filteredArtists, drawn, artists, trackIDs,
                   upsertVars, remote0>>
    /\ UNCHANGED <<authVars, gateVars>>

RECURSIVE FinalTracks(_)
\* Faulty variant of FinalTracks: the compaction starts at the second slot.
FinalTracksFromSecond(tracks) ==
    IF tracks = <<>> THEN <<>> ELSE FinalTracks(Tail(tracks))

\* finalTracks: the non-nil slots of tracks, in slot order.
FinalTracks(tracks) ==
    IF tracks = <<>> THEN <<>> ELSE Head(tracks) \o FinalTracks(Tail(tracks))

\* Faulty variant of BuildOutcome: the dry-run branch does not return.
BuildOutcomeNoDryRunReturn(tracks, dry) ==
    IF Len(tracks) = 0 THEN "failed" ELSE "upsert_find"

\* What BuildPlaylist does with the slots CollectTracks returned: fail when
\* len(tracks) == 0, stop after the preview in dry-run mode, otherwise go on
\* to CreateOrUpdatePlaylist.
BuildOutcome(tracks, dry) ==
    IF Len(tracks) = 0 THEN "failed"
    ELSE IF dry THEN "done"
    ELSE "upsert_find"

\* BuildPlaylist from the return of CollectTracks to the call of
\* CreateOrUpdatePlaylist (or to its own return).
BuildAfterCollect ==
    /\ pc = "collect_loop"
    /\ i >= Len(artists)
    /\ pc' = BuildOutcome(result, dryRun)
    /\ err' = IF pc' = "failed" THEN "no tracks collected from artists" ELSE err
    /\ trackIDs' = IF pc' = "upsert_find"
                   THEN [k \in 1..Len(FinalTracks(result)) |-> FinalTracks(result)[k].ID]
                   ELSE trackIDs
    /\ UNCHANGED <<cmdVars, favVars, filteredArtists, drawn, collectVars, upsertVars,
                   remote0, issued>>
    /\ UNCHANGED <<authVars, gateVars>>

\* ------------------------------------------------ CreateOrUpdatePlaylist

\* existingPlaylists, err := c.FindAllPlaylistsByName(ctx, name)
\* (GetUserID, then the playlist listing; either request may fail).
UpsertFind ==
    /\ pc = "upsert_find"
    /\ \E ok \in BOOLEAN :
        IF ok
        THEN /\ existingPlaylists' = FindAllPlaylistsByName(GetUserPlaylists(remote), playlistName)
             /\ delIdx' = 1
             /\ pc' = "upsert_delete"
             /\ err' = err
        ELSE /\ pc' = "failed"
             /\ err' = "failed to search for existing playlists"
             /\ UNCHANGED <<existingPlaylists, delIdx>>
    /\ issued' = issued \cup {"GetUserID", "GetUserPlaylists"}
    /\ UNCHANGED <<remote, playlist, batchI, attachCalls, trackIDs, remote0>>
    /\ UNCHANGED <<cmdVars, favVars, filteredArtists, drawn, collectVars>>
    /\ UNCHANGED <<authVars, gateVars>>

\* Faulty variant of DeleteFailed: the error is noted and the loop goes on.
DeleteFailedIgnored ==
    /\ err' = "failed to delete playlist"
    /\ pc' = pc
    /\ delIdx' = delIdx + 1
    /\ remote' = remote

\* DeletePlaylist returned an error: CreateOrUpdatePlaylist returns it at
\* once.  The request either never took effect or took effect with its
\* response lost.
DeleteFailed ==
    /\ pc' = "failed"
    /\ err' = "failed to delete playlist"
    /\ delIdx' = delIdx
    /\ remote' \in {remote, ServerDelete(remote, existingPlaylists[delIdx].ID)}

\* One iteration of: for _, playlist := range existingPlaylists { DeletePlaylist }.
UpsertDelete ==
    /\ pc = "upsert_delete"
    /\ delIdx <= Len(existingPlaylists)
    /\ \E ok \in BOOLEAN :
        IF ok
        THEN /\ remote' = ServerDelete(remote, existingPlaylists[delIdx].ID)
             /\ delIdx' = delIdx + 1
             /\ UNCHANGED <<pc, err>>
        ELSE DeleteFailed
    /\ issued' = issued \cup {"DeletePlaylist"}
    /\ UNCHANGED <<existingPlaylists, playlist, batchI, attachCalls, trackIDs, remote0>>
    /\ UNCHANGED <<cmdVars, favVars, filteredArtists, drawn, collectVars>>
    /\ UNCHANGED <<authVars, gateVars>>

\* playlist, err := c.CreatePlaylist(ctx, name, description), after the delete loop.
UpsertCreate ==
    /\ pc = "upsert_delete"
    /\ delIdx > Len(existingPlaylists)
    /\ \E ok \in BOOLEAN :
        IF ok
        THEN /\ remote' = ServerCreate(remote, NewPlaylistID, playlistName)
             /\ playlist' = [ID |-> NewPlaylistID, UUID |-> "",
                             Title |-> playlistName, Name |-> playlistName]
             /\ batchI' = 0
             /\ pc' = "upsert_attach"
             /\ err' = err
        ELSE /\ pc' = "failed"
             /\ err' = "failed to create playlist"
             /\ UNCHANGED <<remote, playlist, batchI>>
    /\ issued' = issued \cup {"CreatePlaylist"}
    /\ UNCHANGED <<existingPlaylists, delIdx, attachCalls, trackIDs, remote0>>
    /\ UNCHANGED <<cmdVars, favVars, filteredArtists, drawn, collectVars>>
    /\ UNCHANGED <<authVars, gateVars>>

\* Faulty variant of BatchEnd: an off-by-one in the end of a full batch.
BatchEndShort(start, n) == IF start + batchSize > n THEN n ELSE start + batchSize - 1

\* end := i + batchSize; if end > len(trackIDs) { end = len(trackIDs) }
BatchEnd(start, n) == IF start + batchSize > n THEN n ELSE start + batchSize

\* trackIDs[from:to] for 0-based from and to.
Slice(s, from, to) == SubSeq(s, from + 1, to)

\* Faulty variant of AttachFailed: the error is noted but the loop goes on.
AttachFailedIgnored ==
    /\ err' = "failed to add tracks to playlist"
    /\ batchI' = batchI + batchSize
    /\ UNCHANGED <<pc, remote>>

\* SetPlaylistTracks returned an error: CreateOrUpdatePlaylist returns it
\* at once.
AttachFailed ==
    /\ pc' = "failed"
    /\ err' = "failed to add tracks to playlist"
    /\ UNCHANGED <<remote, batchI>>

\* One iteration of the batch loop: for i := 0; i < len(trackIDs); i += batchSize.
UpsertAttach ==
    /\ pc = "upsert_attach"
    /\ batchI < Len(trackIDs)
    /\ LET end   == BatchEnd(batchI, Len(trackIDs))
           batch == Slice(trackIDs, batchI, end)
       IN  /\ attachCalls' = Append(attachCalls, batch)
           /\ \/ /\ remote' = ServerAddItems(remote, GetID(playlist), batch)
                 /\ batchI' = batchI + batchSize
                 /\ UNCHANGED <<pc, err>>
              \/ AttachFailed
    /\ issued' = issued \cup {"SetPlaylistTracks"}
    /\ UNCHANGED <<existingPlaylists, delIdx, playlist, trackIDs, remote0>>
    /\ UNCHANGED <<cmdVars, favVars, filteredArtists, drawn, collectVars>>
    /\ UNCHANGED <<authVars, gateVars>>

\* return playlist, nil (and BuildPlaylist's return nil after it).
UpsertReturn ==
    /\ pc = "upsert_attach"
    /\ batchI >= Len(trackIDs)
    /\ pc' = "done"
    /\ UNCHANGED <<err, trackIDs, upsertVars, remote0, issued>>
    /\ UNCHANGED <<cmdVars, favVars, filteredArtists, drawn, collectVars>>
    /\ UNCHANGED <<authVars, gateVars>>

NextUpsert == UpsertFind \/ UpsertDelete \/ UpsertCreate \/ UpsertAttach \/ UpsertReturn

\* ------------------------------------------------------------ AuthManager

\* Times are seconds relative to time.Now() of the call.
\* The margin of GetValidToken's test Expiry.Before(now + 1 minute).
refreshMargin == 60

\* The zero oauth2.Token.
NoToken == [access |-> "", refresh |-> "", type |-> "", expiry |-> 0]

\* token.Expiry.Before(time.Now()) in LoadToken.
Expired(t) == t.expiry < 0

\* Faulty variant of NeedsRefresh: no token is ever taken to need a refresh.
NeedsRefreshNever(t) == FALSE

\* token.Expiry.Before(time.Now().Add(1 * time.Minute)) in GetValidToken.
NeedsRefresh(t) == t.expiry < refreshMargin

\* Expiry times of the tokens in play: past, within the margin, far off.
ExpiryValues == {-10, 30, 3600}

\* Tokens a saved file can hold.
SavedTokens == [access : {"a0"}, refresh : {"", "r0"}, type : {"Bearer"}, expiry : ExpiryValues]

\* Tokens the authorization server issues; refresh is the refresh token it
\* hands out ("" in the client credentials flow).
ServerTokens(refresh) ==
    [access : {"a1"}, refresh : {refresh}, type : {"Bearer"}, expiry : {30, 3600}]

\* The token file's contents.
\* Faulty variant of Stored: the refresh token is not written.
StoredNoRefresh(t) ==
    [access_token |-> t.access, refresh_token |-> "", token_type |-> t.type,
     expires_at |-> t.expiry]

\* The models.OAuth2Token SaveToken builds from a token and writes as JSON.
Stored(t) ==
    [access_token |-> t.access, refresh_token |-> t.refresh, token_type |-> t.type,
     expires_at |-> t.expiry]

\* The oauth2.Token LoadToken builds from the parsed models.OAuth2Token.
Loaded(d) ==
    [access |-> d.access_token, refresh |-> d.refresh_token, type |-> d.token_type,
     expiry |-> d.expires_at]

FileNone    == [state |-> "none", data |-> Stored(NoToken)]
FileCorrupt == [state |-> "corrupt", data |-> Stored(NoToken)]
FileOf(t)   == [state |-> "ok", data |-> Stored(t)]

\* SaveToken(t): on success the file holds exactly t; on failure the file is
\* as before (MkdirAll or marshalling failed) or cut short (WriteFile failed).
SaveToken(file, t, saved) ==
    IF saved THEN {FileOf(t)} ELSE {file, FileCorrupt}

\* What lastSaved becomes when SaveToken(t) left the file as file2.
Remember(t, saved, file2) ==
    IF saved THEN <<t>> ELSE IF file2 = tokenFile THEN lastSaved ELSE <<>>

\* The error GetValidToken returns when LoadToken returned one.
errNoSavedToken == "no saved token found, please run 'tidal-playlist auth' first"

\* The return of RefreshToken (and of the login it delegates to) with token
\* t and error e: to LoadToken, which passes it on to GetValidToken, or to
\* GetValidToken, which returns it.
BackToCaller(t, e) ==
    IF authCaller = "LoadToken" /\ e = ""
    THEN /\ authPc' = "check" /\ token' = t
         /\ UNCHANGED <<authRet, authErr>>
    ELSE /\ authPc' = "returned" /\ token' = token
         /\ authRet' = (IF e = "" THEN <<t>> ELSE <<>>)
         /\ authErr' = (IF authCaller = "LoadToken" THEN errNoSavedToken ELSE e)

\* A caller invokes GetValidToken.
GetValidTokenCall ==
    /\ authPc = "idle"
    /\ authOp' = "GetValidToken" /\ authPc' = "load"
    /\ UNCHANGED <<authCaller, tokenFile, tokenFile0, token, authRet, authErr, authCalls,
                   listener, codeChan, errChan>>
    /\ UNCHANGED <<pipeVars, gateVars>>
    /\ UNCHANGED <<authRun, lastSaved>>

\* LoadToken, called by GetValidToken: read and parse the file; a token that
\* is expired and has a refresh token goes to RefreshToken.  An error makes
\* GetValidToken return its "no saved token" error.
LoadToken ==
    /\ authPc = "load"
    /\ IF tokenFile.state # "ok"
       THEN /\ authPc' = "returned" /\ authErr' = errNoSavedToken /\ authRet' = <<>>
            /\ UNCHANGED <<token, authCaller>>
       ELSE /\ token' = Loaded(tokenFile.data)
            /\ IF Expired(Loaded(tokenFile.data)) /\ Loaded(tokenFile.data).refresh # ""
               THEN authPc' = "refresh" /\ authCaller' = "LoadToken"
               ELSE authPc' = "check" /\ authCaller' = authCaller
            /\ UNCHANGED <<authRet, authErr>>
    /\ UNCHANGED <<authOp, tokenFile, tokenFile0, authCalls, listener, codeChan, errChan>>
    /\ UNCHANGED <<pipeVars, gateVars>>
    /\ UNCHANGED <<authRun, lastSaved>>

\* GetValidToken after LoadToken: refresh a token that expires within the
\* margin, otherwise return it.
CheckExpiry ==
    /\ authPc = "check"
    /\ IF NeedsRefresh(token)
       THEN /\ authPc' = "refresh" /\ authCaller' = "GetValidToken"
            /\ UNCHANGED <<authRet, authErr>>
       ELSE /\ authPc' = "returned" /\ authRet' = <<token>> /\ authErr' = ""
            /\ authCaller' = authCaller
    /\ UNCHANGED <<authOp, tokenFile, tokenFile0, token, authCalls, listener, codeChan, errChan>>
    /\ UNCHANGED <<pipeVars, gateVars>>
    /\ UNCHANGED <<authRun, lastSaved>>

\* RefreshToken: without a refresh token delegate to
\* LoginWithClientCredentials; otherwise ask the token source, which hands
\* back the token itself while it is valid or a new one from the server, and
\* save what it returned.
RefreshToken ==
    /\ authPc = "refresh"
    /\ IF token.refresh = ""
       THEN /\ authPc' = "client_credentials"
            /\ UNCHANGED <<tokenFile, token, authRet, authErr, authCalls, lastSaved>>
       ELSE \E ok \in BOOLEAN, saved \in BOOLEAN,
               t \in ServerTokens("r1") \cup (IF Expired(token) THEN {} ELSE {token}) :
              /\ authCalls' = Append(authCalls, [call |-> "TokenSource", ok |-> ok /\ saved,
                                                  saveFailed |-> ok /\ ~saved])
              /\ IF ~ok
                 THEN /\ UNCHANGED <<tokenFile, lastSaved>>
                      /\ BackToCaller(t, "failed to refresh token")
                 ELSE /\ tokenFile' \in SaveToken(tokenFile, t, saved)
                      /\ lastSaved' = Remember(t, saved, tokenFile')
                      /\ BackToCaller(t, IF saved THEN "" ELSE "failed to save refreshed token")
    /\ UNCHANGED <<authOp, authCaller, tokenFile0, listener, codeChan, errChan>>
    /\ UNCHANGED <<pipeVars, gateVars>>
    /\ UNCHANGED authRun

\* LoginWithClientCredentials: request a token with the client's id and
\* secret and save it.
LoginWithClientCredentials ==
    /\ authPc = "client_credentials"
    /\ \E ok \in BOOLEAN, saved \in BOOLEAN, t \in ServerTokens("") :
          /\ authCalls' = Append(authCalls, [call |-> "LoginWithClientCredentials",
                                              ok |-> ok /\ saved, saveFailed |-> ok /\ ~saved])
          /\ IF ~ok
             THEN /\ UNCHANGED <<tokenFile, lastSaved>>
                  /\ BackToCaller(t, "authentication failed")
             ELSE /\ tokenFile' \in SaveToken(tokenFile, t, saved)
                  /\ lastSaved' = Remember(t, saved, tokenFile')
                  /\ BackToCaller(t, IF saved THEN "" ELSE "failed to save token")
    /\ UNCHANGED <<authOp, authCaller, tokenFile0, listener, codeChan, errChan>>
    /\ UNCHANGED <<pipeVars, gateVars>>
    /\ UNCHANGED authRun

\* Login up to its select: generate the PKCE parameters, make the two
\* channels, and start the callback server in a goroutine; a server that
\* cannot listen sends its error to errChan.
LoginCall ==
    /\ authPc = "idle"
    /\ authOp' = "Login"
    /\ \E pkce \in BOOLEAN :
          IF ~pkce
          THEN /\ authPc' = "returned" /\ authErr' = "failed to generate PKCE" /\ authRet' = <<>>
               /\ UNCHANGED <<listener, codeChan, errChan>>
          ELSE /\ authPc' = "login_wait"
               /\ codeChan' = <<>>
               /\ \/ listener' = "serving" /\ errChan' = <<>>
                  \/ listener' = "failed" /\ errChan' = <<"listen">>
               /\ UNCHANGED <<authRet, authErr>>
    /\ UNCHANGED <<authCaller, tokenFile, tokenFile0, token, authCalls>>
    /\ UNCHANGED <<pipeVars, gateVars>>
    /\ UNCHANGED <<authRun, lastSaved>>

\* The browser is redirected to /callback while the server is serving: the
\* handler sends the code to codeChan, or an error to errChan when the
\* request has none.  A send to a full channel blocks the handler.
Callback ==
    /\ listener = "serving"
    /\ \/ Len(codeChan) < 1 /\ codeChan' = Append(codeChan, "code") /\ errChan' = errChan
       \/ Len(errChan) < 1 /\ errChan' = Append(errChan, "no code in callback")
                           /\ codeChan' = codeChan
    /\ UNCHANGED <<authOp, authPc, authCaller, tokenFile, tokenFile0, token, authRet, authErr,
                   authCalls, listener>>
    /\ UNCHANGED <<pipeVars, gateVars>>
    /\ UNCHANGED <<authRun, lastSaved>>

\* server.Shutdown: a serving listener is closed.
Shutdown(l) == IF l = "serving" THEN "closed" ELSE l

\* Login's select: a code from codeChan, then server.Shutdown; an error from
\* errChan, returned at once; the five-minute timer, returned at once.
LoginSelect ==
    /\ authPc = "login_wait"
    /\ \/ /\ codeChan # <<>>
          /\ codeChan' = Tail(codeChan)
          /\ listener' = Shutdown(listener)
          /\ authPc' = "exchange"
          /\ UNCHANGED <<errChan, authRet, authErr>>
       \/ /\ errChan # <<>>
          /\ errChan' = Tail(errChan)
          /\ authPc' = "returned" /\ authErr' = "callback server error" /\ authRet' = <<>>
          /\ UNCHANGED <<codeChan, listener>>
       \/ /\ authPc' = "returned" /\ authErr' = "authentication timeout" /\ authRet' = <<>>
          /\ UNCHANGED <<codeChan, errChan, listener>>
    /\ UNCHANGED <<authOp, authCaller, tokenFile, tokenFile0, token, authCalls>>
    /\ UNCHANGED <<pipeVars, gateVars>>
    /\ UNCHANGED <<authRun, lastSaved>>

\* Login after the shutdown: exchange the code for a token and save it.
LoginExchange ==
    /\ authPc = "exchange"
    /\ \E ok \in BOOLEAN, saved \in BOOLEAN, t \in ServerTokens("r1") \cup ServerTokens("") :
          /\ authCalls' = Append(authCalls, [call |-> "Exchange", ok |-> ok /\ saved,
                                              saveFailed |-> ok /\ ~saved])
          /\ authPc' = "returned"
          /\ IF ~ok
             THEN /\ UNCHANGED <<tokenFile, lastSaved>> /\ authRet' = <<>>
                  /\ authErr' = "failed to exchange code for token"
             ELSE /\ tokenFile' \in SaveToken(tokenFile, t, saved)
                  /\ lastSaved' = Remember(t, saved, tokenFile')
                  /\ authRet' = (IF saved THEN <<t>> ELSE <<>>)
                  /\ authErr' = (IF saved THEN "" ELSE "failed to save token")
    /\ UNCHANGED <<authOp, authCaller, tokenFile0, token, listener, codeChan, errChan>>
    /\ UNCHANGED <<pipeVars, gateVars>>
    /\ UNCHANGED authRun

\* The program exits and is started again: the listener and the call's
\* variables go with the process, the token file stays.
NextRun ==
    /\ authPc = "returned"
    /\ authRun < MaxRuns
    /\ authRun' = authRun + 1
    /\ authOp' = "" /\ authPc' = "idle" /\ authCaller' = ""
    /\ tokenFile0' = tokenFile /\ token' = NoToken
    /\ authRet' = <<>> /\ authErr' = "" /\ authCalls' = <<>>
    /\ listener' = "none" /\ codeChan' = <<>> /\ errChan' = <<>>
    /\ UNCHANGED <<tokenFile, lastSaved>>
    /\ UNCHANGED <<pipeVars, gateVars>>

\* -------------------------------------------------------- Client.doRequest

Callers == 1..NCallers

\* How the body of doRequest can end: http.NewRequestWithContext fails,
\* GetValidToken fails, httpClient.Do fails, the status is >= 400, or the
\* response is returned.
Outcomes == {"request_failed", "token_failed", "transport_failed", "status_error", "ok"}

\* A goroutine calls doRequest (through get, post, patch or delete).
DoRequestCall(c) ==
    /\ gpc[c] = "idle"
    /\ gpc' = [gpc EXCEPT ![c] = "acquire"]
    /\ UNCHANGED <<rateLimiter, reqOutcome>>
    /\ UNCHANGED <<pipeVars, authVars>>

\* c.rateLimiter <- struct{}{}: the send goes through when the channel of
\* capacity 1 has room, and blocks otherwise.
Acquire(c) ==
    /\ gpc[c] = "acquire"
    /\ Len(rateLimiter) < 1
    /\ rateLimiter' = Append(rateLimiter, c)
    /\ gpc' = [gpc EXCEPT ![c] = "request"]
    /\ UNCHANGED reqOutcome
    /\ UNCHANGED <<pipeVars, authVars>>

\* The body of doRequest up to its return statement, whichever it is.  It
\* neither sends to nor receives from rateLimiter: GetValidToken and the
\* logins it may run use HTTP clients of their own.
Request(c) ==
    /\ gpc[c] = "request"
    /\ \E o \in Outcomes : reqOutcome' = [reqOutcome EXCEPT ![c] = o]
    /\ gpc' = [gpc EXCEPT ![c] = "delay"]
    /\ UNCHANGED rateLimiter
    /\ UNCHANGED <<pipeVars, authVars>>

\* Faulty variant of Release: the channel is drained only after a request
\* that returned a response.
ReleaseOnSuccess(c) ==
    /\ gpc[c] = "delay"
    /\ rateLimiter # <<>>
    /\ rateLimiter' = IF reqOutcome[c] = "ok" THEN Tail(rateLimiter) ELSE rateLimiter
    /\ gpc' = [gpc EXCEPT ![c] = "idle"]
    /\ UNCHANGED reqOutcome
    /\ UNCHANGED <<pipeVars, authVars>>

\* The deferred function, run on every return: sleep 300 ms, then receive
\* from rateLimiter.
Release(c) ==
    /\ gpc[c] = "delay"
    /\ rateLimiter # <<>>
    /\ rateLimiter' = Tail(rateLimiter)
    /\ gpc' = [gpc EXCEPT ![c] = "idle"]
    /\ UNCHANGED reqOutcome
    /\ UNCHANGED <<pipeVars, authVars>>

\* --------------------------------------------------------- specifications

\* Values of the variables a specification does not use.
IdleCmd ==
    /\ cfgCount = 1 /\ flagCount = 0 /\ credsOK = TRUE /\ Count = 1
    /\ Whitelist = <<>> /\ Blacklist = <<>> /\ dryRun = FALSE
IdleAuth ==
    /\ authOp = "" /\ authPc = "off" /\ authCaller = ""
    /\ tokenFile = FileNone /\ tokenFile0 = FileNone /\ token = NoToken
    /\ authRet = <<>> /\ authErr = "" /\ authCalls = <<>>
    /\ listener = "none" /\ codeChan = <<>> /\ errChan = <<>>
    /\ authRun = 0 /\ lastSaved = <<>>

IdleGate ==
    /\ gpc = [c \in Callers |-> "off"] /\ rateLimiter = <<>>
    /\ reqOutcome = [c \in Callers |-> ""]

IdleFav == favPages = <<>> /\ cursor = 0 /\ allArtists = <<>> /\ favRequests = <<>>
IdleCollect ==
    /\ artists = <<>> /\ i = 0 /\ lastArtist = <<>> /\ lastAlbums = <<>>
    /\ result = <<>> /\ albumCalls = <<>> /\ steps = <<>>
IdleUpsert ==
    /\ existingPlaylists = <<>> /\ delIdx = 1 /\ playlist = NoPlaylist
    /\ batchI = 0 /\ attachCalls = <<>>

\* Track-id lists of length n: all distinct, or repeating with period three.
TrackLists(n) == { [k \in 1..n |-> k], [k \in 1..n |-> 1 + (k % 3)] }

\* CreateOrUpdatePlaylist called on its own, with any playlists on the
\* service and track lists long enough for three batches.
InitUpsert ==
    /\ pc = "upsert_find" /\ err = ""
    /\ IdleCmd /\ IdleFav /\ IdleCollect /\ IdleUpsert
    /\ playlistName \in {"X", "Y"}
    /\ filteredArtists = <<>> /\ drawn = <<>>
    /\ \E n \in 0..MaxTracks : trackIDs \in TrackLists(n)
    /\ remote \in RemoteConfigs
    /\ remote0 = remote
    /\ issued = {}
    /\ IdleAuth /\ IdleGate

SpecUpsert == InitUpsert /\ [][NextUpsert]_vars

\* FilterArtists on its own: any favourites, any whitelist and blacklist.
InitFilter ==
    /\ pc = "filter" /\ err = ""
    /\ cfgCount = 1 /\ flagCount = 0 /\ credsOK = TRUE /\ Count = 1 /\ dryRun = FALSE
    /\ playlistName = "X"
    /\ Whitelist \in SeqUpTo(FilterNames, MaxFilter)
    /\ Blacklist \in SeqUpTo(FilterNames, MaxFilter)
    /\ favPages = <<>> /\ cursor = 0 /\ favRequests = <<>>
    /\ allArtists \in SeqUpTo(ArtistIDRecs, MaxArtists)
    /\ filteredArtists = <<>> /\ drawn = <<>>
    /\ IdleCollect /\ IdleUpsert
    /\ trackIDs = <<>> /\ remote = <<>> /\ remote0 = <<>> /\ issued = {}
    /\ IdleAuth /\ IdleGate

NextFilter == FilterStep

SpecFilter == InitFilter /\ [][NextFilter]_vars

\* selectRandomItems on its own: any source list and any count.
InitSample ==
    /\ pc = "sample" /\ err = ""
    /\ cfgCount = 1 /\ flagCount = 0 /\ credsOK = TRUE /\ dryRun = FALSE
    /\ Count \in 0..MaxCount
    /\ playlistName = "X"
    /\ Whitelist = <<>> /\ Blacklist = <<>>
    /\ IdleFav
    /\ filteredArtists \in SeqUpTo(ArtistIDRecs, MaxArtists)
    /\ drawn = <<>>
    /\ IdleCollect /\ IdleUpsert
    /\ trackIDs = <<>> /\ remote = <<>> /\ remote0 = <<>> /\ issued = {}
    /\ IdleAuth /\ IdleGate

NextSample == SampleStep

SpecSample == InitSample /\ [][NextSample]_vars

\* GetFavoriteArtists alone: the service holds 1..MaxPages pages, each with no
\* artist, one or two, and a nextCursor that is empty or names any page
\* (chains that loop included).
PageData == { <<>>, << [ID |-> <<66>>] >>, << [ID |-> <<49>>], [ID |-> <<65, 98>>] >> }
PageChains ==
    UNION { [1..n -> [data : PageData, nextCursor : 0..n]] : n \in 1..MaxPages }
InitFav ==
    /\ pc = "fav_user" /\ err = ""
    /\ IdleCmd
    /\ favPages \in PageChains
    /\ cursor = 0 /\ allArtists = <<>> /\ favRequests = <<>>
    /\ filteredArtists = <<>> /\ drawn = <<>> /\ trackIDs = <<>>
    /\ IdleCollect /\ IdleUpsert
    /\ playlistName = "X" /\ remote = <<>> /\ remote0 = <<>> /\ issued = {}
    /\ IdleAuth /\ IdleGate
NextFav == FavUserID \/ FavPage
\* The loop is sequential code in one goroutine: a request that can be made
\* is made.
SpecFav == InitFav /\ [][NextFav]_vars /\ WF_vars(NextFav)

\* One call of the AuthManager, GetValidToken or Login, over every token
\* file: missing, unparsable, or holding a saved token.
TokenFiles == {FileNone, FileCorrupt} \cup { FileOf(t) : t \in SavedTokens }
InitAuth ==
    /\ pc = "done" /\ err = ""
    /\ IdleCmd /\ IdleFav /\ IdleCollect /\ IdleUpsert /\ IdleGate
    /\ playlistName = "X" /\ remote = <<>> /\ remote0 = <<>> /\ issued = {}
    /\ filteredArtists = <<>> /\ drawn = <<>> /\ trackIDs = <<>>
    /\ authOp = "" /\ authPc = "idle" /\ authCaller = ""
    /\ \/ tokenFile \in {FileNone, FileCorrupt} /\ lastSaved = <<>>
       \/ \E t \in SavedTokens : tokenFile = FileOf(t) /\ lastSaved = <<t>>
    /\ tokenFile0 = tokenFile /\ token = NoToken
    /\ authRet = <<>> /\ authErr = "" /\ authCalls = <<>>
    /\ listener = "none" /\ codeChan = <<>> /\ errChan = <<>>
    /\ authRun = 1
NextAuth ==
    \/ GetValidTokenCall
    \/ LoadToken
    \/ CheckExpiry
    \/ RefreshToken
    \/ LoginWithClientCredentials
    \/ LoginCall
    \/ Callback
    \/ LoginSelect
    \/ LoginExchange
    \/ NextRun
SpecAuth == InitAuth /\ [][NextAuth]_vars

\* NCallers goroutines calling doRequest on one Client again and again.
InitGate ==
    /\ pc = "done" /\ err = ""
    /\ IdleCmd /\ IdleFav /\ IdleCollect /\ IdleUpsert /\ IdleAuth
    /\ playlistName = "X" /\ remote = <<>> /\ remote0 = <<>> /\ issued = {}
    /\ filteredArtists = <<>> /\ drawn = <<>> /\ trackIDs = <<>>
    /\ gpc = [c \in Callers |-> "idle"] /\ rateLimiter = <<>>
    /\ reqOutcome = [c \in Callers |-> ""]
NextGate ==
    \E c \in Callers :
        \/ DoRequestCall(c)
        \/ Acquire(c)
        \/ Request(c)
        \/ Release(c)
\* A goroutine that can step does; the HTTP client and the token requests
\* have timeouts, so the body returns.  The runtime queues the goroutines
\* blocked in a channel send in arrival order, so a sender that finds room
\* again and again gets through: strong fairness of Acquire.
SpecGate ==
    /\ InitGate /\ [][NextGate]_vars
    /\ \A c \in Callers : WF_vars(Request(c)) /\ WF_vars(Release(c)) /\ SF_vars(Acquire(c))

\* The favourites on the service: prefixes of "B", "1", "Ab", served in
\* pages of two with the next page's number as cursor.
FavLists == { SubSeq(<< [ID |-> <<66>>], [ID |-> <<49>>], [ID |-> <<65, 98>>] >>, 1, n) : n \in 0..3 }
Pages(list) ==
    IF Len(list) <= 2 THEN << [data |-> list, nextCursor |-> 0] >>
    ELSE << [data |-> SubSeq(list, 1, 2), nextCursor |-> 2],
            [data |-> SubSeq(list, 3, Len(list)), nextCursor |-> 0] >>

\* The whitelist/blacklist pairs of the pipeline runs.
BuildFilters ==
    { <<<<>>, <<>>>>, <<<< <<98>> >>, <<>>>>, <<<<>>, << <<98>> >>>>, <<<< <<97, 66>> >>, << <<98>>, <<49>> >>>> }

\* The playlists on the service before a pipeline run.
BuildRemotes ==
    { r \in RemoteConfigs : Len(r) \in {0, MaxExisting} /\ \A k \in 1..Len(r) : r[k].name = Titles0[k] }

\* BuildPlaylist from the return of CollectTracks on, for slot lists long
\* enough to need several batches: n entries of artist "B", whose slots are
\* all filled, or filled except every third, or filled at the even positions.
SlotLists(n) ==
    { [k \in 1..n |-> << [ID |-> 11] >>],
      [k \in 1..n |-> IF k % 3 = 0 THEN <<>>
                      ELSE IF k % 3 = 1 THEN << [ID |-> 11] >> ELSE << [ID |-> 12] >>],
      [k \in 1..n |-> IF k % 2 = 1 THEN <<>> ELSE << [ID |-> 12] >>] }
\* The iterations that leave the slots res for n entries of "B": the albums
\* are fetched for the first entry, an empty slot comes from the album
\* without tracks.
StepsFor(res) ==
    [k \in 1..Len(res) |->
        IF res[k] = <<>> THEN StepRec(<<66>>, k = 1, "albB2", "tracks_failed")
        ELSE StepRec(<<66>>, k = 1, "albB1", "ok")]
InitBuild ==
    /\ pc = "collect_loop" /\ err = ""
    /\ credsOK = TRUE /\ flagCount = 0 /\ playlistName = "X"
    /\ Whitelist = <<>> /\ Blacklist = <<>>
    /\ dryRun \in BOOLEAN
    /\ Count \in 1..MaxTracks /\ cfgCount = Count
    /\ favPages = Pages(<< [ID |-> <<66>>] >>) /\ cursor = 0 /\ favRequests = <<0>>
    /\ allArtists = << [ID |-> <<66>>] >> /\ filteredArtists = allArtists
    /\ drawn = [k \in 1..Count |-> [ID |-> <<66>>]] /\ artists = drawn
    /\ i = Count
    /\ lastArtist = <<66>> /\ lastAlbums = GetArtistAlbums(<<66>>, albumLimit)
    /\ result \in SlotLists(Count)
    /\ steps = StepsFor(result) /\ albumCalls = << <<66>> >>
    /\ IdleUpsert /\ trackIDs = <<>>
    /\ remote \in BuildRemotes /\ remote0 = remote
    /\ issued = {"GetUserID", "GetFavoriteArtists", "GetArtist", "GetArtistAlbums", "GetAlbumTracks"}
    /\ IdleAuth /\ IdleGate
NextBuild ==
    \/ BuildAfterCollect
    \/ UpsertFind
    \/ UpsertDelete
    \/ UpsertCreate
    \/ UpsertAttach
    \/ UpsertReturn
SpecBuild == InitBuild /\ [][NextBuild]_vars

\* The create command: every configuration, flag and service state above.
Init ==
    /\ pc = "create_cmd" /\ err = ""
    /\ cfgCount \in 0..MaxCount /\ Count = cfgCount
    /\ flagCount \in 0..MaxCount
    /\ credsOK \in BOOLEAN
    /\ dryRun \in BOOLEAN
    /\ playlistName = "X"
    /\ \E f \in BuildFilters : Whitelist = f[1] /\ Blacklist = f[2]
    /\ \E l \in FavLists : favPages = Pages(l)
    /\ cursor = 0 /\ allArtists = <<>> /\ favRequests = <<>>
    /\ filteredArtists = <<>> /\ drawn = <<>>
    /\ IdleCollect /\ IdleUpsert
    /\ trackIDs = <<>>
    /\ remote \in BuildRemotes /\ remote0 = remote
    /\ issued = {}
    /\ IdleAuth /\ IdleGate

Next ==
    \/ CreateCmd
    \/ FavUserID
    \/ FavPage
    \/ FilterStep
    \/ SampleStep
    \/ CollectStart
    \/ CollectStep
    \/ BuildAfterCollect
    \/ UpsertFind
    \/ UpsertDelete
    \/ UpsertCreate
    \/ UpsertAttach
    \/ UpsertReturn

Spec == Init /\ [][Next]_vars

\* ----------------------------------------------------------------- claims

\* Ids of the playlists in a service list.
IdsOf(r) == { r[k].id : k \in 1..Len(r) }
\* Positions of the playlists of a service list titled t.
Titled(r, t) == { k \in 1..Len(r) : r[k].name = t }
\* ceil(n / d) for naturals.
CeilDiv(n, d) == (n + d - 1) \div d

\* C1: CreateOrUpdatePlaylist(X, tracks) deletes every existing playlist
\* titled exactly X and no playlist with another title, creates exactly one
\* new playlist titled X, and has done all of that before the first
\* track-attachment call; after a successful call exactly one playlist
\* titled X exists.
C1_UpsertReplacesMatches ==
    /\ \A k \in 1..Len(remote0) :
          remote0[k].name # playlistName => remote0[k] \in { remote[j] : j \in 1..Len(remote) }
    /\ (pc = "upsert_attach" \/ "SetPlaylistTracks" \in issued \/ pc = "done") =>
          /\ \A k \in Titled(remote0, playlistName) : remote0[k].id \notin IdsOf(remote)
          /\ Cardinality(Titled(remote, playlistName)) = 1
          /\ \A k \in Titled(remote, playlistName) : remote[k].id \notin IdsOf(remote0)
          /\ Len(remote) = Len(remote0) - Cardinality(Titled(remote0, playlistName)) + 1

\* C1 witness: a successful upsert of "X" with tracks attached, where a
\* playlist titled "X" and one titled "x" existed before.
C1_Witness ==
    /\ pc = "done" /\ attachCalls # <<>> /\ playlistName = "X"
    /\ Titled(remote0, "X") # {} /\ Titled(remote0, "x") # {}

\* C4: on success the ids were attached in ceil(n/20) calls, each of 1..20
\* ids, all but the last of exactly 20, and the batches concatenated in call
\* order are the original list.
C4_BatchesOf20 ==
    pc = "done" =>
        /\ Len(attachCalls) = CeilDiv(Len(trackIDs), 20)
        /\ \A k \in 1..Len(attachCalls) :
              /\ Len(attachCalls[k]) \in 1..20
              /\ k < Len(attachCalls) => Len(attachCalls[k]) = 20
        /\ Concat(attachCalls) = trackIDs

\* C4 witness: 45 ids went out as three calls of 20, 20 and 5 ids.
C4_Witness ==
    /\ pc = "done" /\ Len(trackIDs) = 45
    /\ [k \in 1..Len(attachCalls) |-> Len(attachCalls[k])] = <<20, 20, 5>>

\* C5: when the k-th attachment call fails the call returns the error at
\* once (the failing call is the last one issued), the new playlist stays on
\* the service holding exactly the first k-1 batches, and the same-titled
\* playlists deleted before are not restored.
C5_PartialPlaylistStays ==
    err = "failed to add tracks to playlist" =>
        /\ pc = "failed"
        /\ Len(attachCalls) = (batchI \div batchSize) + 1
        /\ \E j \in 1..Len(remote) :
              /\ remote[j].id = GetID(playlist)
              /\ remote[j].name = playlistName
              /\ remote[j].items = Concat(SubSeq(attachCalls, 1, Len(attachCalls) - 1))
              /\ remote[j].items = SubSeq(trackIDs, 1, batchI)
        /\ \A k \in Titled(remote0, playlistName) : remote0[k].id \notin IdsOf(remote)

\* C5 witness: the third call failed after two batches were committed, and
\* a same-titled playlist had been deleted.
C5_Witness ==
    /\ pc = "failed" /\ err = "failed to add tracks to playlist"
    /\ Len(attachCalls) = 3
    /\ Titled(remote0, playlistName) # {}

\* Equality of two byte strings under ASCII case folding.
EqFold(s, t) ==
    /\ Len(s) = Len(t)
    /\ \A k \in 1..Len(s) :
          \/ s[k] = t[k]
          \/ s[k] \in 65..90 /\ t[k] = s[k] + 32
          \/ t[k] \in 65..90 /\ s[k] = t[k] + 32
\* Whether an identifier matches some entry of a list, ignoring case.
InList(id, names) == \E k \in 1..Len(names) : EqFold(id, names[k])
\* FilterArtists has run.
Filtered == pc \in {"sample", "failed"}

\* C7: with a non-empty whitelist FilterArtists returns exactly the input
\* artists whose identifier equals a whitelist entry ignoring case, in input
\* order and multiplicity, and the result is the one an empty blacklist
\* gives, whatever the blacklist holds.
C7_WhitelistExact ==
    (Filtered /\ Len(Whitelist) > 0) =>
        /\ filteredArtists = SelectSeq(allArtists, LAMBDA a : InList(a.ID, Whitelist))
        /\ filteredArtists = FilterArtists(Whitelist, <<>>, allArtists)

\* C7 witness: a whitelist entry matched an artist by case folding only, a
\* blacklisted artist passed, and another artist was dropped.
C7_Witness ==
    /\ Filtered /\ Len(Whitelist) > 0
    /\ \E k \in 1..Len(filteredArtists) :
          /\ InList(filteredArtists[k].ID, Blacklist)
          /\ \A j \in 1..Len(Whitelist) : Whitelist[j] # filteredArtists[k].ID
    /\ Len(filteredArtists) < Len(allArtists)

\* C8: with an empty whitelist and a non-empty blacklist FilterArtists
\* returns exactly the input artists whose identifier matches no blacklist
\* entry ignoring case, in input order.
C8_BlacklistExact ==
    (Filtered /\ Len(Whitelist) = 0 /\ Len(Blacklist) > 0) =>
        /\ filteredArtists = SelectSeq(allArtists, LAMBDA a : ~InList(a.ID, Blacklist))
        /\ \A k \in 1..Len(filteredArtists) : ~InList(filteredArtists[k].ID, Blacklist)
        /\ \A k \in 1..Len(allArtists) :
              ~InList(allArtists[k].ID, Blacklist) =>
                  \E j \in 1..Len(filteredArtists) : filteredArtists[j] = allArtists[k]

\* C8 witness: an artist was dropped for a blacklist entry that differs from
\* its identifier in case, and another artist was kept.
C8_Witness ==
    /\ Filtered /\ Len(Whitelist) = 0 /\ Len(Blacklist) > 0
    /\ \E k \in 1..Len(allArtists) :
          /\ InList(allArtists[k].ID, Blacklist)
          /\ \A j \in 1..Len(Blacklist) : Blacklist[j] # allArtists[k].ID
    /\ Len(filteredArtists) > 0

\* C9: with both lists empty FilterArtists returns its input unchanged.
C9_NoFilterIdentity ==
    (Filtered /\ Len(Whitelist) = 0 /\ Len(Blacklist) = 0) => filteredArtists = allArtists

\* C9 witness: an unfiltered list with a repeated artist passed through.
C9_Witness ==
    /\ Filtered /\ Len(Whitelist) = 0 /\ Len(Blacklist) = 0
    /\ Len(filteredArtists) = MaxArtists
    /\ filteredArtists[1] = filteredArtists[MaxArtists]

\* C10: for a source of size M >= 1, selectRandomItems(N, source) returns
\* exactly N elements, each a member of source, whatever the draws are.
C10_SampleSizeAndMembership ==
    (pc = "collect" /\ Len(filteredArtists) >= 1) =>
        /\ Len(drawn) = Count
        /\ \A k \in 1..Len(drawn) :
              \E j \in 1..Len(filteredArtists) : drawn[k] = filteredArtists[j]

\* C10 witness: N exceeds M, the source has no repeated element, and one
\* source element occupies several positions of the result.
C10_Witness ==
    /\ pc = "collect" /\ Len(filteredArtists) >= 1
    /\ Count > Len(filteredArtists)
    /\ \A j, k \in 1..Len(filteredArtists) : j # k => filteredArtists[j] # filteredArtists[k]
    /\ \E j, k \in 1..Len(drawn) : j # k /\ drawn[j] = drawn[k]

\* The API calls that change the user's playlists.
WriteCalls == {"DeletePlaylist", "CreatePlaylist", "SetPlaylistTracks"}
\* The API calls of track collection.
CollectCalls == {"GetArtist", "GetArtistAlbums", "GetAlbumTracks"}
\* CollectTracks has returned and BuildPlaylist has gone on.
AfterCollect ==
    /\ pc \in {"done", "failed", "upsert_find", "upsert_delete", "upsert_attach"}
    /\ Len(result) >= 1 /\ i = Len(result)

\* C2: when every slot returned by CollectTracks is empty, BuildPlaylist
\* returns an error and no playlist is deleted, created or written.
C2_EmptyFinalListFails ==
    (AfterCollect /\ FinalTracks(result) = <<>>) =>
        /\ pc = "failed"
        /\ issued \cap WriteCalls = {}
        /\ remote = remote0

\* C3: in dry-run mode no playlist delete, create or track-attachment call
\* is ever issued and the service's playlists stay as they were.
C3_DryRunNoWrites ==
    dryRun => (issued \cap WriteCalls = {} /\ remote = remote0 /\ pc \notin {"upsert_find", "upsert_delete", "upsert_attach"})

\* C3 witness: a dry run that collected a track and returned with playlists
\* of the requested title on the service.
C3_Witness ==
    /\ dryRun /\ pc = "done" /\ FinalTracks(result) # <<>>
    /\ Titled(remote0, playlistName) # {}

\* C6: when the favourite-artist fetch failed or the filtered list is empty,
\* BuildPlaylist has returned an error, and no artist, album or track fetch
\* and no playlist call has been issued.
C6_NothingToSampleAborts ==
    (pc \notin {"create_cmd", "fav_user", "fav_page", "filter"} /\ filteredArtists = <<>>) =>
        /\ pc = "failed" /\ err # ""
        /\ issued \cap (CollectCalls \cup WriteCalls \cup {"GetUserPlaylists"}) = {}
        /\ drawn = <<>>
        /\ remote = remote0

\* C6 witnesses: the filter removed every favourite; the fetch failed on the
\* second page.
C6_Witness ==
    /\ pc = "failed" /\ err = "no artists remaining after filtering"
    /\ allArtists # <<>>

\* CollectTracks has returned to BuildPlaylist: the loop ran over every entry.
CollectTracksReturned ==
    /\ Len(drawn) >= 1
    /\ i >= Len(artists)
    /\ pc \in {"collect_loop", "done", "failed", "upsert_find", "upsert_delete", "upsert_attach"}

\* C11: the slot list CollectTracks returns has one slot per sampled artist
\* passed in, whatever fetches failed, and the final track list made of its
\* non-empty slots (and the id list built from it) is never longer.
C11_OneSlotPerArtist ==
    CollectTracksReturned =>
        /\ Len(result) = Len(drawn)
        /\ Len(FinalTracks(result)) <= Len(drawn)
        /\ Len(trackIDs) <= Len(drawn)

\* Three artists were passed in, one slot stayed empty and two were filled.
C11_Witness ==
    /\ CollectTracksReturned
    /\ Len(drawn) = 3
    /\ Len(FinalTracks(result)) = 2
    /\ \E k \in 1..Len(steps) : steps[k].outcome = "albums_failed"

RECURSIVE CursorChain(_, _, _)
\* The cursors a client following the chain sends, starting with cursor c,
\* cut off after fuel requests.
CursorChain(pages, c, fuel) ==
    IF fuel = 0 THEN <<>>
    ELSE IF PageAt(pages, c).nextCursor = 0 THEN <<c>>
    ELSE <<c>> \o CursorChain(pages, PageAt(pages, c).nextCursor, fuel - 1)

\* The chain from the first page ends: following it meets an empty nextCursor
\* within as many requests as there are pages.
FiniteChain(pages) ==
    LET chain == CursorChain(pages, 0, Len(pages))
    IN  PageAt(pages, chain[Len(chain)]).nextCursor = 0

RECURSIVE DataOf(_, _)
\* The data of the pages a cursor sequence names, concatenated in order.
DataOf(pages, cursors) ==
    IF cursors = <<>> THEN <<>>
    ELSE PageAt(pages, Head(cursors)).data \o DataOf(pages, Tail(cursors))

\* The requests made so far follow the chain: the first has no cursor and
\* each later one carries the nextCursor of the response before it, which was
\* not empty.
FollowsChain ==
    /\ favRequests # <<>> => favRequests[1] = 0
    /\ \A k \in 1..(Len(favRequests) - 1) :
          /\ PageAt(favPages, favRequests[k]).nextCursor # 0
          /\ favRequests[k + 1] = PageAt(favPages, favRequests[k]).nextCursor

\* GetFavoriteArtists returned a list.
FavReturned == pc = "filter"

\* C12: GetFavoriteArtists requests the first page without a cursor and each
\* next page with the previous response's nextCursor, returns at the first
\* response with an empty nextCursor the data of all pages in request order,
\* returns an error and no artist when a request fails, and returns whenever
\* the cursor chain from the first page is finite.
C12_FollowsCursorChain ==
    /\ [](FollowsChain
          /\ (FavReturned =>
                /\ favRequests # <<>>
                /\ PageAt(favPages, favRequests[Len(favRequests)]).nextCursor = 0
                /\ allArtists = DataOf(favPages, favRequests))
          /\ (pc = "failed" => err # "" /\ allArtists = <<>>)
          /\ (FiniteChain(favPages) => Len(favRequests) <= Len(favPages)))
    /\ (FiniteChain(favPages) ~> (pc \in {"filter", "failed"}))

\* Two pages were requested, the second by the cursor of the first, and the
\* list of both came back.
C12_Witness ==
    /\ FavReturned
    /\ favRequests = <<0, 2>>
    /\ Len(allArtists) = 3

\* A request failed after a page had been read.
C12_WitnessFailed ==
    /\ pc = "failed" /\ Len(favRequests) = 2

\* The sampling step of the create command has run.
Sampled == pc \in {"collect", "collect_loop", "done", "upsert_find", "upsert_delete",
                   "upsert_attach", "panic"} /\ drawn # <<>>

\* C14: with valid credentials and --count N >= 1 the create command does not
\* stop at the configuration check, whatever the configured count is, and the
\* number of artists sampled is N with the flag and the configured count, at
\* least 1, without it.
C14_CountFlagOverrides ==
    /\ (credsOK /\ flagCount >= 1 => err # "invalid config")
    /\ (Sampled => /\ Len(drawn) = (IF flagCount >= 1 THEN flagCount ELSE cfgCount)
                   /\ Len(drawn) >= 1)

\* The part of C14 the command keeps: what is sampled is the flag's count when
\* the flag is given and the configured count otherwise.
C14_SampledCount ==
    Sampled => /\ Len(drawn) = (IF flagCount >= 1 THEN flagCount ELSE cfgCount)
               /\ Len(drawn) >= 1

\* GetArtist failed for some entry of this run.
ArtistFetchHasFailed == \E k \in 1..Len(steps) : steps[k].outcome = "artist_failed"

\* C15: a failed GetArtist does not abort the run: the run does not crash
\* and the album fetch for the entry's identifier is made.
C15_ArtistFailureContinues ==
    ArtistFetchHasFailed =>
        /\ pc # "panic"
        /\ \E k \in 1..Len(albumCalls) : albumCalls[k] = steps[Len(steps)].id

\* The tracks of an artist in the catalogue: those of any of its albums.
TracksOf(artistID) ==
    UNION { { AlbumTracks(ArtistAlbums(artistID)[a].ID)[t] :
                t \in 1..Len(AlbumTracks(ArtistAlbums(artistID)[a].ID)) } :
            a \in 1..Len(ArtistAlbums(artistID)) }

\* How often id occurs in a list of artist references.
Occurrences(list, id) == Cardinality({ k \in 1..Len(list) : list[k].ID = id })

\* C16 as stated: the slots CollectTracks returns line up with the artists in
\* the order they were drawn: a filled slot k holds a track of the artist
\* drawn k-th, and an empty slot k means the k-th drawn artist has a failed
\* fetch.
C16_AlignedWithDrawnOrder ==
    CollectTracksReturned =>
        \A k \in 1..Len(result) :
            /\ result[k] # <<>> => result[k][1] \in TracksOf(drawn[k].ID)
            /\ result[k] = <<>> =>
                  \E n \in 1..Len(steps) : steps[n].id = drawn[k].ID /\ steps[n].outcome # "ok"

\* C16, amended: the slots line up with the artists in sorted order.  The
\* list walked is the drawn one sorted by identifier; the n-th iteration is
\* about the n-th sorted artist; slot n holds a track of that artist when the
\* iteration got one and is empty when its album or track fetch failed or
\* returned nothing; the slots of entries not yet walked are empty.
C16_AlignedWithSortedOrder ==
    pc \in {"collect_loop", "done", "failed", "upsert_find", "upsert_delete", "upsert_attach"}
      /\ Len(drawn) >= 1 =>
        /\ Len(artists) = Len(drawn)
        /\ \A a \in ArtistIDs : Occurrences(artists, a) = Occurrences(drawn, a)
        /\ \A k \in 1..(Len(artists) - 1) : Compare(artists[k].ID, artists[k + 1].ID) <= 0
        /\ Len(steps) = i
        /\ \A n \in 1..Len(result) :
              IF n <= i
              THEN /\ steps[n].id = artists[n].ID
                   /\ steps[n].outcome = "ok" =>
                         result[n] # <<>> /\ result[n][1] \in TracksOf(artists[n].ID)
                   /\ steps[n].outcome # "ok" => result[n] = <<>>
              ELSE result[n] = <<>>

\* Artists drawn as "B", "Ab" were walked as "Ab", "B": the first slot holds
\* a track of "Ab" and the second one of "B".
C16_Witness ==
    /\ CollectTracksReturned
    /\ drawn = << [ID |-> <<66>>], [ID |-> <<65, 98>>] >>
    /\ result[1] # <<>> /\ result[1][1] \in TracksOf(<<65, 98>>)
    /\ result[2] # <<>> /\ result[2][1] \in TracksOf(<<66>>)

\* C17: an album fetch that fails or returns no albums, and a track fetch
\* that fails or returns no tracks, leave the entry's slot empty and nothing
\* else: the loop goes on to the next entry, and when CollectTracks returns
\* every entry has been walked and no error has come from the collection.
C17_FetchFailureCostsOneSlot ==
    /\ \A n \in 1..Len(steps) :
          steps[n].outcome \in {"albums_failed", "tracks_failed"} =>
              /\ result[n] = <<>>
              /\ i >= n
              /\ pc \in {"collect_loop", "panic"} \/ CollectTracksReturned
              /\ \A m \in 1..Len(steps) : steps[m].outcome = "ok" => result[m] # <<>>
    /\ CollectTracksReturned =>
          /\ Len(steps) = Len(artists)
          /\ pc = "collect_loop" => err = ""

\* The first entry's album fetch came back without albums and the second
\* entry still got its track.
C17_Witness ==
    /\ CollectTracksReturned
    /\ Len(steps) = 2
    /\ steps[1].outcome = "albums_failed" /\ result[1] = <<>>
    /\ steps[2].outcome = "ok" /\ result[2] # <<>>

\* The track fetch of the first entry failed and the second entry was walked.
C17_WitnessTracks ==
    /\ CollectTracksReturned
    /\ Len(steps) = 2
    /\ steps[1].outcome = "tracks_failed" /\ result[1] = <<>>
    /\ steps[2].outcome = "ok"

\* How often GetArtistAlbums was called for artist id in this run.
AlbumFetches(id) == Cardinality({ k \in 1..Len(albumCalls) : albumCalls[k] = id })

\* C18: within one CollectTracks run GetArtistAlbums is called at most once
\* for each artist identifier, however often the artist was drawn and
\* whether or not the fetch succeeded.
C18_AlbumsFetchedOncePerArtist ==
    \A a \in ArtistIDs : AlbumFetches(a) <= 1

\* The part of C18 the loop keeps: once an artist's album fetch has returned
\* albums, no later entry of that artist fetches them again.
C18_NoFetchAfterAlbumsCame ==
    \A n \in 1..Len(steps), m \in 1..Len(steps) :
        (n < m /\ steps[n].id = steps[m].id /\ steps[n].outcome \in {"ok", "tracks_failed"})
            => ~steps[m].fetched

\* GetValidToken has returned.
GetValidTokenReturned == authOp = "GetValidToken" /\ authPc = "returned"

\* The two situations of C13, read off the token file the call found.
NoSavedToken == tokenFile0.state # "ok"
ExpiredNoRefresh ==
    /\ tokenFile0.state = "ok"
    /\ Expired(Loaded(tokenFile0.data))
    /\ Loaded(tokenFile0.data).refresh = ""

\* The logins among the calls made.
LoginAttempts ==
    { k \in 1..Len(authCalls) : authCalls[k].call \in {"LoginWithClientCredentials", "Exchange"} }

\* C13 as stated: with no saved token, and with an expired token that has no
\* refresh token, GetValidToken attempts a login and returns an error only if
\* that login failed.
C13_ReloginOnBoth ==
    (GetValidTokenReturned /\ (NoSavedToken \/ ExpiredNoRefresh)) =>
        /\ LoginAttempts # {}
        /\ authErr # "" => \A k \in LoginAttempts : ~authCalls[k].ok

\* C13, amended: only the expired token without refresh token is recovered by
\* a login.  For it GetValidToken makes exactly one call, a client
\* credentials login, and returns that login's token, saved to the file, or
\* an error exactly when the login failed.  With no saved token (the file
\* missing or unreadable) it makes no call at all, leaves the file alone and
\* returns the error that asks for `tidal-playlist auth`.
C13_ReloginOnlyWhenExpired ==
    GetValidTokenReturned =>
        /\ ExpiredNoRefresh =>
              /\ Len(authCalls) = 1
              /\ authCalls[1].call = "LoginWithClientCredentials"
              /\ authErr = "" <=> authCalls[1].ok
              /\ authCalls[1].ok =>
                    /\ Len(authRet) = 1
                    /\ authRet[1] \in ServerTokens("")
                    /\ tokenFile = FileOf(authRet[1])
              /\ ~authCalls[1].ok => authRet = <<>>
        /\ NoSavedToken =>
              /\ authCalls = <<>>
              /\ authErr = errNoSavedToken
              /\ authRet = <<>>
              /\ tokenFile = tokenFile0

\* An expired token without refresh token was found and the client
\* credentials login replaced it.
C13_Witness ==
    /\ GetValidTokenReturned /\ ExpiredNoRefresh
    /\ authErr = "" /\ Len(authCalls) = 1 /\ authCalls[1].ok

\* No token file was found and GetValidToken returned its error.
C13_WitnessNoToken ==
    /\ GetValidTokenReturned /\ tokenFile0 = FileNone /\ authErr = errNoSavedToken

\* C20: after Login has returned, whichever way it left its wait, the
\* callback listener it started is not serving any more.
C20_ListenerDownAfterLogin ==
    (authOp = "Login" /\ authPc = "returned") => listener # "serving"

\* The part of C20 Login keeps: once it has received a code the listener is
\* shut down.
C20_ListenerDownAfterCode ==
    (authOp = "Login" /\ (authPc = "exchange" \/ (authPc = "returned" /\ authCalls # <<>>)))
        => listener = "closed"

\* The callers between their send to rateLimiter and their receive from it.
Admitted == { c \in Callers : gpc[c] \in {"request", "delay"} }

\* C19: at most one caller of doRequest is between acquiring and releasing
\* the gate; the channel holds the send of exactly that caller; a caller that
\* has returned, however its request ended, and a caller that waits to
\* acquire, has nothing in the channel; and every caller that waits to
\* acquire is eventually admitted.
C19_OneRequestAtATime ==
    /\ [](/\ Cardinality(Admitted) <= 1
          /\ Len(rateLimiter) = Cardinality(Admitted)
          /\ \A c \in Callers :
                /\ c \in Admitted => rateLimiter = <<c>>
                /\ gpc[c] \in {"idle", "acquire"} =>
                      \A k \in 1..Len(rateLimiter) : rateLimiter[k] # c)
    /\ \A c \in Callers : (gpc[c] = "acquire") ~> (gpc[c] = "request")

\* One caller has returned from a request that failed at the token, and
\* another caller, which had to wait, is now admitted.
C19_Witness ==
    \E c \in Callers, d \in Callers :
        /\ c # d
        /\ gpc[c] = "idle" /\ reqOutcome[c] = "token_failed"
        /\ gpc[d] = "request" /\ rateLimiter = <<d>>

\* The token file holds exactly token t: each of the four stored fields is
\* the token's.
Holds(file, t) ==
    /\ file.state = "ok"
    /\ file.data.access_token = t.access
    /\ file.data.refresh_token = t.refresh
    /\ file.data.token_type = t.type
    /\ file.data.expires_at = t.expiry

\* LoadToken has just handed the file's token to GetValidToken, without a
\* refresh.
LoadTokenReturnedFile == authPc = "check" /\ authCalls = <<>>

\* C21: every token the AuthManager obtains replaces the file's contents.
\* After a successful Login, LoginWithClientCredentials or RefreshToken the
\* file holds the four fields of the token returned; LoadToken returns the
\* four fields of the token that was saved last; and an operation whose save
\* failed returns an error and no token.
C21_TokenFileFollowsToken ==
    /\ (authPc = "returned" /\ authCalls # <<>> /\ authErr = "") =>
          /\ Len(authRet) = 1
          /\ authRet = lastSaved
          /\ Holds(tokenFile, authRet[1])
    /\ (authPc = "check" /\ authCalls # <<>>) =>
          /\ <<token>> = lastSaved
          /\ Holds(tokenFile, token)
    /\ LoadTokenReturnedFile =>
          /\ lastSaved # <<>>
          /\ token = lastSaved[1]
          /\ Holds(tokenFile, token)
    /\ (authPc = "returned" /\ authCalls # <<>> /\ authCalls[Len(authCalls)].saveFailed) =>
          /\ authRet = <<>>
          /\ authErr # ""
    /\ tokenFile.state = "ok" => (lastSaved # <<>> /\ Holds(tokenFile, lastSaved[1]))

\* A token with a refresh token, issued and saved in one run, is loaded
\* unexpired in the next.
C21_Witness ==
    /\ authRun = 2 /\ LoadTokenReturnedFile
    /\ token \in ServerTokens("r1")
    /\ ~NeedsRefresh(token)
    /\ tokenFile0.state = "ok"

\* A save failed and the call returned its error.
C21_WitnessSaveFailed ==
    /\ authPc = "returned" /\ authCalls # <<>> /\ authCalls[Len(authCalls)].saveFailed
    /\ authErr = "failed to save token"

\* The identifiers of an artist's albums in the catalogue.
AlbumIDsOf(artistID) ==
    { ArtistAlbums(artistID)[a].ID : a \in 1..Len(ArtistAlbums(artistID)) }

\* The tracks of an album in the catalogue.
TracksOfAlbum(albumID) ==
    { AlbumTracks(albumID)[t] : t \in 1..Len(AlbumTracks(albumID)) }

\* C22: in CollectTracks the album picked for an entry is one of the albums
\* of that entry's own artist, and the track stored for it is a track of that
\* album, whatever happened to the entries before it; and the album list kept
\* for reuse is the list of the artist kept with it.
C22_OwnArtistsAlbums ==
    /\ \A n \in 1..Len(steps) :
          steps[n].outcome \in {"ok", "tracks_failed"} =>
              /\ steps[n].album \in AlbumIDsOf(steps[n].id)
              /\ steps[n].outcome = "ok" =>
                    (n <= Len(result) /\ result[n] # <<>>
                       /\ result[n][1] \in TracksOfAlbum(steps[n].album))
    /\ lastArtist # <<>> => lastAlbums = GetArtistAlbums(lastArtist, albumLimit)

\* "Ab" got a track, the album fetch for the next artist "B" failed, and the
\* following entry of "B" got a track from an album of "B".
C22_Witness ==
    /\ Len(steps) = 3
    /\ steps[1].id = <<65, 98>> /\ steps[1].outcome = "ok"
    /\ steps[2].id = <<66>> /\ steps[2].outcome = "albums_failed"
    /\ steps[3].id = <<66>> /\ steps[3].outcome = "ok"
    /\ steps[3].album \in AlbumIDsOf(<<66>>)

\* C23: when a DeletePlaylist of the delete loop fails, CreateOrUpdatePlaylist
\* returns the error at once: no playlist is created and no track attached,
\* the matches deleted before the failure are gone, the matches after it are
\* on the service as they were, and so is every playlist of another title.
C23_DeleteFailureStopsUpsert ==
    err = "failed to delete playlist" =>
        /\ pc = "failed"
        /\ "CreatePlaylist" \notin issued /\ "SetPlaylistTracks" \notin issued
        /\ playlist = NoPlaylist /\ attachCalls = <<>>
        /\ IdsOf(remote) \subseteq IdsOf(remote0)
        /\ delIdx \in 1..Len(existingPlaylists)
        /\ \A k \in 1..(delIdx - 1) : existingPlaylists[k].ID \notin IdsOf(remote)
        /\ \A k \in (delIdx + 1)..Len(existingPlaylists) :
              \E j \in 1..Len(remote), j0 \in 1..Len(remote0) :
                  /\ remote[j].id = existingPlaylists[k].ID
                  /\ remote[j] = remote0[j0]
        /\ \A k \in 1..Len(remote0) :
              remote0[k].name # playlistName =>
                  remote0[k] \in { remote[j] : j \in 1..Len(remote) }

\* Two playlists matched; the first was deleted and the delete of the second
\* failed.
C23_Witness ==
    /\ err = "failed to delete playlist"
    /\ Len(existingPlaylists) = 2 /\ delIdx = 2
    /\ existingPlaylists[1].ID \notin IdsOf(remote)

\* Two playlists matched and the delete of the first failed: the second is
\* still on the service.
C23_WitnessLaterMatch ==
    /\ err = "failed to delete playlist"
    /\ Len(existingPlaylists) = 2 /\ delIdx = 1
    /\ existingPlaylists[2].ID \in IdsOf(remote)

\* The identifiers of the tracks in the non-empty slots, in slot order.
NonEmptyIDs(res) ==
    LET filled == SelectSeq(res, LAMBDA s : s # <<>>)
    IN  [k \in 1..Len(filled) |-> filled[k][1].ID]

\* BuildPlaylist has returned nil after creating the playlist.
BuildSucceeded == pc = "done" /\ ~dryRun

\* C24: after a successful BuildPlaylist that is no dry run, the track ids
\* attached over all batches, in call order, and the items of the new
\* playlist on the service are the ids of the non-empty slots CollectTracks
\* returned, in slot order, and they are at most as many as the requested
\* count.
C24_AttachedAreCollected ==
    BuildSucceeded =>
        /\ Concat(attachCalls) = NonEmptyIDs(result)
        /\ \E j \in 1..Len(remote) :
              /\ remote[j].id = GetID(playlist)
              /\ remote[j].name = playlistName
              /\ remote[j].items = NonEmptyIDs(result)
        /\ Len(Concat(attachCalls)) <= Count
        /\ Len(result) = Count

\* More than twenty tracks were collected, with empty slots between them,
\* and went out in two or more batches.
C24_Witness ==
    /\ BuildSucceeded
    /\ Len(attachCalls) >= 2
    /\ \E k \in 1..Len(result) : result[k] = <<>>
    /\ Len(NonEmptyIDs(result)) > batchSize

====
